---- MODULE Spec2Model ----
(***************************************************************************)
(* Model of the bibxml-service index layer (main/indexed.py) and of the    *)
(* xml2rfc serializer entry points exercised by xml2rfc_compat/tests.py.   *)
(*                                                                         *)
(* The api_ref_data table is a set of RefData rows.  Each entry point is    *)
(* one action: it evaluates the whole call against the current table and   *)
(* leaves what the caller observes in `result`.  The table is owned by an  *)
(* ingestion pipeline outside this code; Ingest and Delete stand for it.   *)
(***************************************************************************)
EXTENDS Integers, Sequences, FiniteSets, TLC

VARIABLES api_ref_data, result

vars == <<api_ref_data, result>>

(***************************************************************************)
(* Bounds                                                                  *)
(***************************************************************************)
MaxRows == 2
MaxDocids == 2
MaxObjs == 2
MaxTitles == 2
MaxRelations == 2
MaxContributors == 1

(***************************************************************************)
(* Strings that take part in case-insensitive comparison are sequences of  *)
(* characters; every other string is opaque.                               *)
(***************************************************************************)
UpperOf == [a |-> "A", d |-> "D", f |-> "F", i |-> "I", r |-> "R"]

UpperChar(c) == IF c \in DOMAIN UpperOf THEN UpperOf[c] ELSE c

\* PostgreSQL UPPER(), which Django's iexact lookup applies to both sides.
UPPER(s) == [k \in 1..Len(s) |-> UpperChar(s[k])]

\* Variant: the lookup compares case-sensitively (exact instead of iexact).
iexact_as_exact(column, value) == column = value

iexact(column, value) == UPPER(column) = UPPER(value)

\* Python's None / SQL NULL: an optional value is the empty set or a singleton.
None == {}

Some(v) == {v}

\* Variant: the value is used without the truthiness test.
Truthy_unchecked(o) == TRUE

\* Python truthiness of an optional string.
Truthy(o) == o # None /\ o # Some("")

(***************************************************************************)
(* Q objects: a conjunction of field lookups.                              *)
(***************************************************************************)
Q(field, lookup, value) == << [field |-> field, lookup |-> lookup, value |-> value] >>

\* Q() with no arguments: matches every row.
QAll == << >>

\* Variant: the right-hand conjunct (the dataset filter) is lost.
QAnd_left_only(q1, q2) == q1

\* q1 & q2
QAnd(q1, q2) == q1 \o q2

LookupHolds(row, cond) ==
    LET column == IF cond.field = "ref" THEN row.ref ELSE row.dataset
    IN  IF cond.lookup = "iexact" THEN iexact(column, cond.value)
        ELSE column = cond.value

QHolds(row, q) == \A k \in 1..Len(q) : LookupHolds(row, q[k])

\* Manager.filter(q)
Filter(table, q) == {row \in table : QHolds(row, q)}

list_refs(table, dataset_id) == Filter(table, Q("dataset", "iexact", dataset_id))

\* Manager.get(q): the single matching row, or one of the two model exceptions.
Get(table, q) ==
    LET rows == Filter(table, q)
    IN  IF Cardinality(rows) = 0 THEN [raised |-> "DoesNotExist", rows |-> {}]
        ELSE IF Cardinality(rows) > 1
             THEN [raised |-> "MultipleObjectsReturned", rows |-> {}]
             ELSE [raised |-> "", rows |-> rows]

(***************************************************************************)
(* The except clauses of get_indexed_ref_by_query, in order.  A clause     *)
(* whose expression is an exception class catches instances of it; a       *)
(* clause whose expression is anything else (here an exception instance,   *)
(* made by calling the class) makes the interpreter raise TypeError when   *)
(* the clause is tried.                                                    *)
(***************************************************************************)
ExceptClauses ==
    << [expr |-> "DoesNotExist", isClass |-> TRUE,
        msg |-> "Cannot find matching reference in given dataset"],
       [expr |-> "MultipleObjectsReturned", isClass |-> FALSE,
        msg |-> "Multiple references match query in given dataset"] >>

Outcome(raised, msg, body, xml, queries) ==
    [raised |-> raised, msg |-> msg, body |-> body, xml |-> xml,
     queries |-> queries]

RECURSIVE Dispatch(_, _, _)
Dispatch(raised, clauses, k) ==
    IF k > Len(clauses) THEN Outcome(raised, "", None, None, 1)
    ELSE IF ~clauses[k].isClass
         THEN Outcome("TypeError",
                      "catching classes that do not inherit from BaseException is not allowed",
                      None, None, 1)
         ELSE IF clauses[k].expr = raised
              THEN Outcome("RefNotFoundError", clauses[k].msg, None, None, 1)
              ELSE Dispatch(raised, clauses, k + 1)

Formats == {"relaton", "bibxml"}

\* representations.get('bibxml', None)
DictGet(d, key) == IF key \in DOMAIN d THEN Some(d[key]) ELSE None

Resolve(table, dataset_id, query, format) ==
    LET got == Get(table, QAnd(query, Q("dataset", "iexact", dataset_id)))
    IN  IF got.raised # "" THEN Dispatch(got.raised, ExceptClauses, 1)
        ELSE LET found == CHOOSE row \in got.rows : TRUE
             IN  IF format = "relaton"
                 THEN Outcome("", "", Some(found.body), None, 1)
                 ELSE LET bibxml_repr == DictGet(found.representations, "bibxml")
                      IN  IF Truthy(bibxml_repr)
                          THEN Outcome("", "", None, bibxml_repr, 1)
                          ELSE Outcome("RefNotFoundError",
                                       "BibXML representation not found for requested reference",
                                       None, None, 1)

\* Variant: the format is validated only after the store lookup.
get_indexed_ref_by_query_late_check(table, dataset_id, query, format) ==
    LET out == Resolve(table, dataset_id, query, format)
    IN  IF out.raised # "" THEN out
        ELSE IF format \notin Formats
             THEN Outcome("ValueError", "Unknown citation format requested",
                          None, None, 1)
             ELSE out

get_indexed_ref_by_query(table, dataset_id, query, format) ==
    IF format \notin Formats
    THEN Outcome("ValueError", "Unknown citation format requested", None, None, 0)
    ELSE Resolve(table, dataset_id, query, format)

get_indexed_ref(table, dataset_id, ref, format) ==
    get_indexed_ref_by_query(table, dataset_id, Q("ref", "iexact", ref), format)

(***************************************************************************)
(* Input universes                                                         *)
(***************************************************************************)
DatasetIds == { <<"r", "f">>, <<"R", "F">>, <<"i", "d">> }

Refs == { <<"a">>, <<"A">>, <<"d">> }

RequestedFormats == {"relaton", "bibxml", "xyz"}

NoRepresentations == [k \in {} |-> ""]

Representations ==
    { NoRepresentations, [bibxml |-> "<reference/>"], [bibxml |-> ""] }

ResolverBodies ==
    { [docnumber |-> "RFC1"], [docnumber |-> "RFC2"] }

Queries ==
    { QAll, Q("ref", "exact", <<"a">>), Q("ref", "iexact", <<"d">>) }

Row(dataset, ref, body, representations) ==
    [dataset |-> dataset, ref |-> ref, body |-> body,
     representations |-> representations]

\* No call is in progress and no result is waiting for the caller.
NoCall == [op |-> "none"]

Idle == result = NoCall

Init == api_ref_data = {} /\ result = NoCall

\* The caller takes the result of the finished call.
Return ==
    /\ ~Idle
    /\ result' = NoCall
    /\ UNCHANGED api_ref_data

\* Store changes by the ingestion pipeline, between calls.
IngestResolverRow ==
    /\ Idle
    /\ Cardinality(api_ref_data) < MaxRows
    /\ \E d \in DatasetIds, r \in Refs, b \in ResolverBodies,
          reps \in Representations :
          api_ref_data' = api_ref_data \cup {Row(d, r, b, reps)}
    /\ UNCHANGED result

Delete ==
    /\ Idle
    /\ \E row \in api_ref_data : api_ref_data' = api_ref_data \ {row}
    /\ UNCHANGED result

GetIndexedRef ==
    /\ Idle
    /\ \E d \in DatasetIds, r \in Refs, f \in RequestedFormats :
          result' = [op |-> "get_indexed_ref", dataset_id |-> d, ref |-> r,
                     format |-> f,
                     out |-> get_indexed_ref(api_ref_data, d, r, f)]
    /\ UNCHANGED api_ref_data

GetIndexedRefByQuery ==
    /\ Idle
    /\ \E d \in DatasetIds, q \in Queries, f \in RequestedFormats :
          result' = [op |-> "get_indexed_ref_by_query", dataset_id |-> d,
                     query |-> q, format |-> f,
                     out |-> get_indexed_ref_by_query(api_ref_data, d, q, f)]
    /\ UNCHANGED api_ref_data

NextResolver ==
    IngestResolverRow \/ Delete \/ GetIndexedRef \/ GetIndexedRefByQuery \/ Return

SpecResolver == Init /\ [][NextResolver]_vars

(***************************************************************************)
(* JSON.  A jsonb object is a function from keys to values; the value of   *)
(* "docid" is an array (a sequence) of flat objects, every other value is  *)
(* a scalar.  A Python dict keeps its items in insertion order: it is a    *)
(* sequence of <<key, value>> pairs with distinct keys, and a Python list  *)
(* under "docid" is a sequence of such dicts.                              *)
(***************************************************************************)
DictKeys(d) == {d[k][1] : k \in 1..Len(d)}

DictValue(d, key) == d[CHOOSE k \in 1..Len(d) : d[k][1] = key][2]

\* A flat dict as a jsonb object.
FlatObject(d) == [key \in DictKeys(d) |-> DictValue(d, key)]

\* json.dumps(obj) received by PostgreSQL through the %s::jsonb cast: item
\* order is dropped, lists become arrays.
jsonb(obj) ==
    [key \in DictKeys(obj) |->
        IF key = "docid"
        THEN [j \in 1..Len(DictValue(obj, key)) |-> FlatObject(DictValue(obj, key)[j])]
        ELSE DictValue(obj, key)]

\* jsonb @> on two flat objects.
object_contains(left, right) ==
    \A key \in DOMAIN right : key \in DOMAIN left /\ left[key] = right[key]

\* jsonb @> on two arrays of objects: every right element is contained in
\* some left element.
array_contains(left, right) ==
    \A i \in 1..Len(right) : \E j \in 1..Len(left) : object_contains(left[j], right[i])

\* body @> pattern
jsonb_contains(left, right) ==
    \A key \in DOMAIN right :
        /\ key \in DOMAIN left
        /\ IF key = "docid" THEN array_contains(left[key], right[key])
           ELSE left[key] = right[key]

(***************************************************************************)
(* search_refs_relaton_struct: the SQL text is a sequence of tokens.       *)
(***************************************************************************)
SelectFromWhere == "SELECT * FROM api_ref_data WHERE"

Containment == "body @> %s::jsonb"

\* sep.join(parts)
Join(sep, parts) ==
    [k \in 1..(2 * Len(parts) - 1) |-> IF k % 2 = 1 THEN parts[(k + 1) \div 2] ELSE sep]

subqueries(objs) == [k \in 1..Len(objs) |-> Containment]

\* Variant: the subqueries are joined with AND.
BuildQuery_and_joined(objs) == <<SelectFromWhere>> \o Join("AND", subqueries(objs))

BuildQuery(objs) == <<SelectFromWhere>> \o Join("OR", subqueries(objs))

BuildParams(objs) == [k \in 1..Len(objs) |-> jsonb(objs[k])]

\* PostgreSQL's reading of a WHERE clause made of containment tests joined
\* by AND / OR: at least one test, tests and connectives alternating.
WellFormedWhere(where) ==
    /\ Len(where) % 2 = 1
    /\ \A k \in 1..Len(where) :
          IF k % 2 = 1 THEN where[k] = Containment ELSE where[k] \in {"AND", "OR"}

\* Tests m and n belong to one AND-chain (AND binds tighter than OR).
SameConjunction(where, m, n) ==
    \A t \in 1..Len(where) :
        (t % 2 = 0 /\ ((2 * m - 1 < t /\ t < 2 * n - 1) \/ (2 * n - 1 < t /\ t < 2 * m - 1)))
            => where[t] = "AND"

WhereHolds(row, where, params) ==
    LET n == (Len(where) + 1) \div 2
    IN  \E m \in 1..n :
            \A k \in 1..n :
                SameConjunction(where, m, k) => jsonb_contains(row.body, params[k])

\* Manager.raw(query, params), evaluated: the rows, or the database error.
Raw(table, query, params) ==
    LET where == Tail(query)
    IN  IF ~WellFormedWhere(where) \/ (Len(where) + 1) \div 2 # Len(params)
        THEN [raised |-> "ProgrammingError", rows |-> {}]
        ELSE [raised |-> "",
              rows |-> {row \in table : WhereHolds(row, where, params)}]

search_refs_relaton_struct(table, objs) ==
    Raw(table, BuildQuery(objs), BuildParams(objs))

(***************************************************************************)
(* list_doctypes                                                           *)
(***************************************************************************)
\* jsonb_path_query_array(body, '$.docid[*].<field>') in lax mode: the values
\* of <field> of the docid elements that have it, in array order.
RECURSIVE PathValues(_, _)
PathValues(docid, field) ==
    IF Len(docid) = 0 THEN << >>
    ELSE IF field \in DOMAIN Head(docid)
         THEN <<Head(docid)[field]>> \o PathValues(Tail(docid), field)
         ELSE PathValues(Tail(docid), field)

jsonb_path_query_array(body, field) ==
    IF "docid" \in DOMAIN body THEN PathValues(body["docid"], field) ELSE << >>

\* The k-th value a set-returning function yields, NULL once it is exhausted.
Yield(values, k) == IF k <= Len(values) THEN Some(values[k]) ELSE None

Longer(m, n) == IF m >= n THEN m ELSE n

\* The rows of the inner select for one table row: the two
\* jsonb_array_elements_text calls of the select list advance in lockstep.
ItemRows(row) ==
    LET doctypes == jsonb_path_query_array(row.body, "type")
        sample_ids == jsonb_path_query_array(row.body, "id")
    IN  {[doctype |-> Yield(doctypes, k), sample_id |-> Yield(sample_ids, k)] :
            k \in 1..Longer(Len(doctypes), Len(sample_ids))}

ItemTable(table) == UNION {ItemRows(row) : row \in table}

\* select distinct on (doctype): one row for each distinct doctype, which one
\* is not determined.  The set of the lists the call can return.
list_doctypes(table) ==
    LET item == ItemTable(table)
        keys == {i.doctype : i \in item}
    IN  {{pick[d] : d \in keys} :
            pick \in {f \in [keys -> item] : \A d \in keys : f[d].doctype = d}}

(***************************************************************************)
(* Index inputs                                                            *)
(***************************************************************************)
DocidElems ==
    { [type |-> "RFC", id |-> "a"], [type |-> "IETF", id |-> "b"],
      [id |-> "c"], [type |-> "RFC"] }

RECURSIVE SeqsUpTo(_, _)
SeqsUpTo(S, n) ==
    IF n = 0 THEN {<< >>}
    ELSE LET shorter == SeqsUpTo(S, n - 1)
         IN  shorter \cup {Append(q, e) : q \in shorter, e \in S}

NoDocidBody == [docnumber |-> "RFC1"]

\* Bodies of the doctype scan: docid elements with and without type and id.
DoctypeBodies ==
    {NoDocidBody} \cup {[docid |-> q] : q \in SeqsUpTo(DocidElems, MaxDocids)}

SearchDocidElems == { [type |-> "RFC", id |-> "a"], [type |-> "IETF", id |-> "b"] }

SearchBodies ==
    {NoDocidBody} \cup {[docid |-> q] : q \in SeqsUpTo(SearchDocidElems, MaxDocids)}

\* {"docid": [{"type": t}]}
TypePattern(t) == << <<"docid", << << <<"type", t>> >> >> >> >>

Patterns ==
    { TypePattern("RFC"),
      TypePattern("IETF"),
      << <<"docid", << << <<"id", "b">>, <<"type", "IETF">> >> >> >> >>,
      << <<"docid", << << <<"type", "RFC">> >>, << <<"id", "b">> >> >> >> >>,
      << <<"docid", << >> >> >>,
      << <<"docnumber", "RFC1">> >>,
      << >> }

IngestRow(bodies) ==
    /\ Idle
    /\ Cardinality(api_ref_data) < MaxRows
    /\ \E b \in bodies :
          api_ref_data' =
              api_ref_data \cup {Row(<<"r", "f">>, <<"a">>, b, NoRepresentations)}
    /\ UNCHANGED result

IngestSearchRow == IngestRow(SearchBodies)

IngestDoctypeRow == IngestRow(DoctypeBodies)

SearchRefsRelatonStruct ==
    /\ Idle
    /\ \E objs \in SeqsUpTo(Patterns, MaxObjs) :
          result' = [op |-> "search_refs_relaton_struct", objs |-> objs,
                     out |-> search_refs_relaton_struct(api_ref_data, objs)]
    /\ UNCHANGED api_ref_data

ListDoctypes ==
    /\ Idle
    /\ \E entries \in list_doctypes(api_ref_data) :
          result' = [op |-> "list_doctypes", out |-> entries]
    /\ UNCHANGED api_ref_data

NextSearch == IngestSearchRow \/ Delete \/ SearchRefsRelatonStruct \/ Return

SpecSearch == Init /\ [][NextSearch]_vars

NextDoctypes == IngestDoctypeRow \/ Delete \/ ListDoctypes \/ Return

SpecDoctypes == Init /\ [][NextDoctypes]_vars

(***************************************************************************)
(* xml2rfc serializer.  xml2rfc_compat/serializer.py is not among the      *)
(* sources; create_author, create_reference and to_xml follow the          *)
(* serializer's specification and the expectations of                      *)
(* xml2rfc_compat/tests.py.  Each returns the set of outcomes the call can *)
(* have; an element is its tag and the tags of its children.               *)
(***************************************************************************)
Element(tag, children) == [raised |-> "", tag |-> tag, children |-> children]

ValueError(msg) == [raised |-> "ValueError", tag |-> msg, children |-> << >>]

AuthorRoles == {"author", "editor", "publisher"}

\* Variant: the role is not validated.
create_author_any_role(contributor) ==
    IF contributor.organization # None /\ contributor.person # None
    THEN {Element("author", <<"organization">>), Element("author", <<"person">>)}
    ELSE IF contributor.organization # None
         THEN {Element("author", <<"organization">>)}
         ELSE IF contributor.person # None
              THEN {Element("author", <<"person">>)}
              ELSE {ValueError("missing person or organization")}

create_author(contributor) ==
    IF contributor.role = None \/ contributor.role \cap AuthorRoles = {}
    THEN {ValueError("missing role / incompatible role")}
    ELSE IF contributor.organization # None /\ contributor.person # None
         \* both populated: the outcome is not specified
         THEN {Element("author", <<"organization">>), Element("author", <<"person">>),
               ValueError("missing person or organization")}
         ELSE IF contributor.organization # None
              THEN {Element("author", <<"organization">>)}
              ELSE IF contributor.person # None
                   THEN {Element("author", <<"person">>)}
                   ELSE {ValueError("missing person or organization")}

\* `item.title or []`, `item.relation or []`
OrEmpty(optional) == IF optional = None THEN << >> ELSE CHOOSE q \in optional : TRUE

RECURSIVE create_reference(_)

ReferenceChildren(item) ==
    [k \in 1..Len(OrEmpty(item.title)) |-> "title"]
        \o [k \in 1..Len(item.contributor) |-> "author"]
        \o [k \in 1..Len(OrEmpty(item.relation)) |-> "reference"]

\* Some / every nested builder call of create_reference(item) can fail.
NestedCanFail(item) ==
    \/ \E k \in 1..Len(item.contributor) :
          \E o \in create_author(item.contributor[k]) : o.raised # ""
    \/ \E k \in 1..Len(OrEmpty(item.relation)) :
          \E o \in create_reference(OrEmpty(item.relation)[k].bibitem) : o.raised # ""

NestedCanSucceed(item) ==
    /\ \A k \in 1..Len(item.contributor) :
          \E o \in create_author(item.contributor[k]) : o.raised = ""
    /\ \A k \in 1..Len(OrEmpty(item.relation)) :
          \E o \in create_reference(OrEmpty(item.relation)[k].bibitem) : o.raised = ""

\* Variant: an item without titles is accepted.
create_reference_titles_unchecked(item) ==
    {ValueError("nested element") : x \in {1} \cap {y \in {1} : NestedCanFail(item)}}
        \cup {Element("reference", ReferenceChildren(item)) :
                  x \in {1} \cap {y \in {1} : NestedCanSucceed(item)}}

create_reference(item) ==
    IF Len(OrEmpty(item.title)) < 1
    THEN {ValueError("missing titles")}
    ELSE {ValueError("nested element") : x \in {1} \cap {y \in {1} : NestedCanFail(item)}}
             \cup {Element("reference", ReferenceChildren(item)) :
                       x \in {1} \cap {y \in {1} : NestedCanSucceed(item)}}

to_xml(item) ==
    LET titles == OrEmpty(item.title)
        relations == OrEmpty(item.relation)
    IN  IF Len(titles) > 0 THEN create_reference(item)
        ELSE IF Len(relations) < 1
             THEN {ValueError("missing titles and relations")}
             \* the title is taken from the first relation's item, if it has one
             ELSE IF Len(OrEmpty(relations[1].bibitem.title)) > 0
                  THEN create_reference([item EXCEPT !.title = relations[1].bibitem.title])
                  ELSE {ValueError("missing titles")}

(***************************************************************************)
(* Serializer inputs: the fixtures of the tests and their variations.      *)
(***************************************************************************)
contributor_organization_data ==
    [organization |-> Some([name |-> "Internet Engineering Task Force"]),
     person |-> None, role |-> Some("publisher")]

contributor_person_data ==
    [organization |-> None, person |-> Some([name |-> "Mr Cerf"]),
     role |-> Some("author")]

Title == [content |-> "title", language |-> "en"]

NestedItem(title) == [title |-> title, relation |-> None, contributor |-> << >>]

bibitem_data ==
    [title |-> Some(<<Title>>),
     relation |-> Some(<< [type |-> "includes", bibitem |-> NestedItem(Some(<<Title>>))] >>),
     contributor |-> <<contributor_organization_data>>]

Contributors ==
    [organization : {None, contributor_organization_data.organization},
     person : {None, contributor_person_data.person},
     role : {None, Some("author"), Some("publisher"), Some("translator")}]

OptionalSeqs(S, n) == {None} \cup {Some(q) : q \in SeqsUpTo(S, n)}

Relations ==
    [type : {"includes"},
     bibitem : {NestedItem(t) : t \in OptionalSeqs({Title}, 1)}]

BibliographicItems ==
    [title : OptionalSeqs({Title}, MaxTitles),
     relation : OptionalSeqs(Relations, MaxRelations),
     contributor : SeqsUpTo(Contributors, MaxContributors)]

CreateAuthor ==
    /\ Idle
    /\ \E c \in Contributors : \E out \in create_author(c) :
          result' = [op |-> "create_author", contributor |-> c, out |-> out]
    /\ UNCHANGED api_ref_data

CreateReference ==
    /\ Idle
    /\ \E item \in BibliographicItems : \E out \in create_reference(item) :
          result' = [op |-> "create_reference", item |-> item, out |-> out]
    /\ UNCHANGED api_ref_data

ToXml ==
    /\ Idle
    /\ \E item \in BibliographicItems : \E out \in to_xml(item) :
          result' = [op |-> "to_xml", item |-> item, out |-> out]
    /\ UNCHANGED api_ref_data

NextSerializer == CreateAuthor \/ CreateReference \/ ToXml \/ Return

SpecSerializer == Init /\ [][NextSerializer]_vars

(***************************************************************************)
(* Reference Resolver: properties                                          *)
(***************************************************************************)
ResolveCall == result.op \in {"get_indexed_ref", "get_indexed_ref_by_query"}

\* The predicate P of the finished resolve call.
CallQuery ==
    IF result.op = "get_indexed_ref" THEN Q("ref", "iexact", result.ref)
    ELSE result.query

\* The rows that satisfy P and whose dataset equals D up to case.
CallMatches ==
    {row \in api_ref_data :
        /\ UPPER(row.dataset) = UPPER(result.dataset_id)
        /\ QHolds(row, CallQuery)}

NothingReturned == result.out.body = None /\ result.out.xml = None

\* C1: when two or more rows satisfy P within dataset D, resolve with a
\* supported format fails with an AmbiguousReference error, which is neither
\* the NotFound error nor any other kind of failure.
C1_AmbiguousReference ==
    (ResolveCall /\ result.format \in Formats /\ Cardinality(CallMatches) >= 2)
        => result.out.raised = "AmbiguousReferenceError"

\* C2: for a format other than "relaton" and "bibxml", resolve fails with the
\* invalid-format error (ValueError) and has issued no store query, whatever
\* the table, the dataset id and the predicate are.
C2_InvalidFormatBeforeQuery ==
    (ResolveCall /\ result.format \notin {"relaton", "bibxml"})
        => /\ result.out.raised = "ValueError"
           /\ result.out.queries = 0
           /\ NothingReturned

\* C2 witness: an unsupported format was requested while the table holds a
\* row the lookup would have matched.
C2_Witness ==
    /\ ResolveCall
    /\ result.format = "xyz"
    /\ CallMatches # {}
    /\ result.out.raised = "ValueError"

\* C3: when exactly one row matches within dataset D and its representations
\* mapping has no "bibxml" entry, resolve with format "bibxml" fails with the
\* NotFound error (RefNotFoundError), returning nothing.
C3_MissingBibxmlIsNotFound ==
    (/\ ResolveCall
     /\ result.format = "bibxml"
     /\ Cardinality(CallMatches) = 1
     /\ \A row \in CallMatches : "bibxml" \notin DOMAIN row.representations)
        => result.out.raised = "RefNotFoundError" /\ NothingReturned

\* C3 witness: a bibxml request found its single row, which has no bibxml
\* representation.
C3_Witness ==
    /\ ResolveCall
    /\ result.format = "bibxml"
    /\ Cardinality(CallMatches) = 1
    /\ \A row \in CallMatches : row.representations = NoRepresentations
    /\ result.out.raised = "RefNotFoundError"

\* C4: when no row both satisfies P and has dataset equal to D up to case,
\* resolve with a supported format fails with the NotFound error and returns
\* no record data, also when rows satisfying P exist in other datasets.
C4_ZeroMatchesIsNotFound ==
    (ResolveCall /\ result.format \in Formats /\ CallMatches = {})
        => result.out.raised = "RefNotFoundError" /\ NothingReturned

\* C4 witness: nothing matches in dataset D, yet a row of another dataset
\* satisfies P.
C4_Witness ==
    /\ ResolveCall
    /\ result.format \in Formats
    /\ CallMatches = {}
    /\ \E row \in api_ref_data : QHolds(row, CallQuery)
    /\ result.out.raised = "RefNotFoundError"

\* The rows whose dataset equals D and whose ref equals R, both up to case.
RefMatches(table, D, R) ==
    {row \in table : UPPER(row.dataset) = UPPER(D) /\ UPPER(row.ref) = UPPER(R)}

\* C5: a get_indexed_ref(D, R, "relaton") call made while exactly one row has
\* dataset D and ref R (up to case) returns exactly that row's body and
\* leaves the table unchanged.
C5_RelatonReturnsBody ==
    [][ (/\ result'.op = "get_indexed_ref"
         /\ result'.format = "relaton"
         /\ Cardinality(RefMatches(api_ref_data, result'.dataset_id, result'.ref)) = 1)
        => /\ api_ref_data' = api_ref_data
           /\ result'.out.raised = ""
           /\ result'.out.xml = None
           /\ result'.out.body =
                 {row.body : row \in RefMatches(api_ref_data, result'.dataset_id,
                                                result'.ref)} ]_vars

\* C5 witness: the body of the single (D, R) row was returned while the table
\* also holds a row with the same ref in another dataset, with another body.
C5_Witness ==
    /\ result.op = "get_indexed_ref"
    /\ result.format = "relaton"
    /\ Cardinality(RefMatches(api_ref_data, result.dataset_id, result.ref)) = 1
    /\ \E row \in api_ref_data :
          /\ UPPER(row.ref) = UPPER(result.ref)
          /\ UPPER(row.dataset) # UPPER(result.dataset_id)
          /\ Some(row.body) # result.out.body
    /\ \E row \in api_ref_data :
          /\ row.dataset # result.dataset_id
          /\ row.ref # result.ref
          /\ Some(row.body) = result.out.body

(***************************************************************************)
(* Search and doctype scan: properties                                     *)
(***************************************************************************)
SearchCall == result.op = "search_refs_relaton_struct"

Reverse(q) == [k \in 1..Len(q) |-> q[Len(q) + 1 - k]]

\* The body has a docid element whose type is t.
HasDocidType(body, t) ==
    /\ "docid" \in DOMAIN body
    /\ \E j \in 1..Len(body["docid"]) :
          "type" \in DOMAIN body["docid"][j] /\ body["docid"][j]["type"] = t

\* C6: a search with one or more patterns returns exactly the rows whose body
\* contains at least one of them: the union of the one-pattern searches,
\* whatever the order of the patterns; the pattern {"docid": [{"type": t}]}
\* alone returns the rows that have a docid element of type t.
C6_SearchIsUnionOfPatterns ==
    (SearchCall /\ Len(result.objs) >= 1)
        => /\ result.out.raised = ""
           /\ result.out.rows =
                 UNION {search_refs_relaton_struct(api_ref_data, <<result.objs[k]>>).rows :
                            k \in 1..Len(result.objs)}
           /\ result.out.rows =
                 {row \in api_ref_data :
                     \E k \in 1..Len(result.objs) :
                         jsonb_contains(row.body, jsonb(result.objs[k]))}
           /\ result.out = search_refs_relaton_struct(api_ref_data, Reverse(result.objs))
           /\ \A t \in {"RFC", "IETF"} :
                 result.objs = <<TypePattern(t)>>
                     => result.out.rows =
                            {row \in api_ref_data : HasDocidType(row.body, t)}

\* C6 witness: two patterns were searched, each matches a row the other does
\* not, and both rows were returned.
C6_Witness ==
    /\ SearchCall
    /\ Len(result.objs) = 2
    /\ \E r1 \in result.out.rows, r2 \in result.out.rows :
          /\ jsonb_contains(r1.body, jsonb(result.objs[1]))
          /\ ~jsonb_contains(r1.body, jsonb(result.objs[2]))
          /\ jsonb_contains(r2.body, jsonb(result.objs[2]))
          /\ ~jsonb_contains(r2.body, jsonb(result.objs[1]))

\* C10: a search with zero patterns yields an empty result and does not fail.
C10_ZeroPatternsEmptyResult ==
    (SearchCall /\ Len(result.objs) = 0)
        => result.out.raised = "" /\ result.out.rows = {}

\* The docid type values present in the table.
PresentTypes ==
    {t \in {"RFC", "IETF"} : \E row \in api_ref_data : HasDocidType(row.body, t)}

\* Some row has a docid element with type t and id s.
HasDocidPair(t, s) ==
    \E row \in api_ref_data :
        /\ "docid" \in DOMAIN row.body
        /\ \E j \in 1..Len(row.body["docid"]) :
              row.body["docid"][j] = [type |-> t, id |-> s]

\* Every docid element that has a type has an id too, so that each present
\* type has an id to be sampled.
TypedDocidsHaveIds ==
    \A row \in api_ref_data :
        "docid" \in DOMAIN row.body
            => \A j \in 1..Len(row.body["docid"]) :
                   "type" \in DOMAIN row.body["docid"][j]
                       => "id" \in DOMAIN row.body["docid"][j]

\* C7: list_doctypes returns exactly one (type, sampleId) entry for each
\* docid type present in the table and none for anything else, and every
\* sampleId is the id of a docid element of the returned type, also when
\* docid elements lack a type or an id.  Stated for the tables in which each
\* typed element has an id, where such a sample exists for every type.
C7_DoctypesCompleteAndValid ==
    (result.op = "list_doctypes" /\ TypedDocidsHaveIds)
        => /\ \A t \in PresentTypes :
                 Cardinality({e \in result.out : e.doctype = Some(t)}) = 1
           /\ \A e \in result.out :
                 \E t \in PresentTypes, s \in {"a", "b", "c"} :
                     /\ e = [doctype |-> Some(t), sample_id |-> Some(s)]
                     /\ HasDocidPair(t, s)

(***************************************************************************)
(* Serializer: properties                                                  *)
(***************************************************************************)
ReferenceCall == result.op \in {"create_reference", "to_xml"}

NoTitles(item) == item.title = None \/ item.title = Some(<< >>)

NoRelations(item) == item.relation = None \/ item.relation = Some(<< >>)

ExactlyOneParty(c) == (c.organization = None) # (c.person = None)

ValidContributor(c) ==
    c.role \in {Some(r) : r \in AuthorRoles} /\ ExactlyOneParty(c)

\* The contributors of the item are valid authors and its relation items
\* have titles.
ValidParts(item) ==
    /\ \A k \in 1..Len(item.contributor) : ValidContributor(item.contributor[k])
    /\ \A k \in 1..Len(OrEmpty(item.relation)) :
          ~NoTitles(OrEmpty(item.relation)[k].bibitem)

C9_AuthorValidation ==
    result.op = "create_author"
        => /\ result.contributor.role = None => result.out.raised = "ValueError"
           /\ (result.contributor.organization = None /\ result.contributor.person = None)
                 => result.out.raised = "ValueError"
           /\ ValidContributor(result.contributor)
                 => /\ result.out.raised = ""
                    /\ result.out.tag = "author"
                    /\ result.out.children =
                          IF result.contributor.organization # None
                          THEN <<"organization">> ELSE <<"person">>

\* C9 witness: the person fixture of the tests was serialized to an author
\* element with a person subtree.
C9_Witness ==
    /\ result.op = "create_author"
    /\ result.contributor = contributor_person_data
    /\ result.out = Element("author", <<"person">>)

====
